---------------------------- MODULE Spec2Model ----------------------------
(***************************************************************************)
(* MITRE ATT&CK Coverage Tracker (src/app.js, class MITREAttackTracker).   *)
(*                                                                         *)
(* JavaScript strings that the program takes apart (technique identifiers, *)
(* form input) are sequences of one-character strings, so that substring,  *)
(* split, trim, toUpperCase, includes and parseFloat are computed as the   *)
(* program computes them.  Strings that are only compared as a whole       *)
(* (type tags, tactic names, STIX ids) are TLA+ strings.                   *)
(***************************************************************************)
EXTENDS Integers, Sequences, FiniteSets, TLC

\* ------------------------------------------------------------------ bounds
\* Longest raw corpus document (number of objects) the network can deliver.
MaxObjects == 3
\* Most records the detection collection holds before the user stops adding.
MaxDetections == 2
\* Last value of the clock (Date.now()).
MaxClock == 1
\* Number of different values Math.random() gives generateId.
MaxRandom == 1

\* ------------------------------------------------------- JavaScript values
\* null, where the other values of the field are character sequences.
null == <<"null">>

\* Numbers that may be NaN (results of parseFloat and of arithmetic on them).
Num(v) == [nan |-> FALSE, val |-> v]
NaN == [nan |-> TRUE, val |-> 0]

Digits == <<"0", "1", "2", "3", "4", "5", "6", "7", "8", "9">>
IsDigit(c) == \E i \in 1..10 : Digits[i] = c
DigitVal(c) == (CHOOSE i \in 1..10 : Digits[i] = c) - 1

\* String.prototype.includes(ch) for a one-character search string.
includes(s, ch) == \E i \in 1..Len(s) : s[i] = ch

\* String.prototype.substring(start), start counted from 0.
substring(s, start) == SubSeq(s, start + 1, Len(s))

\* String.prototype.split(sep) for a one-character separator: the pieces
\* between the separators, in order (always at least one piece).
RECURSIVE split(_, _)
split(s, sep) ==
    IF ~includes(s, sep) THEN <<s>>
    ELSE LET k == CHOOSE i \in 1..Len(s) :
                      s[i] = sep /\ \A j \in 1..(i - 1) : s[j] # sep
         IN <<SubSeq(s, 1, k - 1)>> \o split(SubSeq(s, k + 1, Len(s)), sep)

\* The value of a sequence of decimal digits.
RECURSIVE DecimalValue(_)
DecimalValue(ds) ==
    IF ds = <<>> THEN 0
    ELSE 10 * DecimalValue(SubSeq(ds, 1, Len(ds) - 1)) + DigitVal(ds[Len(ds)])

\* parseFloat(s) on the alphabet of the model (letters, digits, space; the
\* callers have split the '.' away): leading white space is skipped, the
\* longest prefix of digits is the value, and no digit at all gives NaN.
RECURSIVE SkipSpaces(_)
SkipSpaces(s) == IF s # <<>> /\ Head(s) = " " THEN SkipSpaces(Tail(s)) ELSE s

RECURSIVE DigitPrefix(_)
DigitPrefix(s) ==
    IF s # <<>> /\ IsDigit(Head(s)) THEN <<Head(s)>> \o DigitPrefix(Tail(s))
    ELSE <<>>

parseFloat(s) ==
    LET ds == DigitPrefix(SkipSpaces(s))
    IN IF ds = <<>> THEN NaN ELSE Num(DecimalValue(ds))

\* a !== b and a - b on numbers that may be NaN.
StrictNotEqual(a, b) == a.nan \/ b.nan \/ a.val # b.val
Minus(a, b) == IF a.nan \/ b.nan THEN NaN ELSE Num(a.val - b.val)

\* ------------------------------------------------------------ the corpus
\* A field of a corpus object that the JSON document leaves out.
Has(obj, f) == f \notin obj.missing

MitreRef(id) == [source_name |-> "mitre-attack", external_id |-> id, missing |-> {}]
MitreRefNoId == [source_name |-> "mitre-attack", external_id |-> <<>>,
                 missing |-> {"external_id"}]
CapecRef(id) == [source_name |-> "capec", external_id |-> id, missing |-> {}]
Phase(chain, name) == [kill_chain_name |-> chain, phase_name |-> name]

TacticObj(id, name, short) ==
    [type |-> "x-mitre-tactic", id |-> id, name |-> name,
     x_mitre_shortname |-> short, revoked |-> FALSE, deprecated |-> FALSE,
     external_references |-> <<>>, kill_chain_phases |-> <<>>, missing |-> {}]

PatternObj(id, name, refs, phases, revoked, deprecated, missing) ==
    [type |-> "attack-pattern", id |-> id, name |-> name,
     x_mitre_shortname |-> "", revoked |-> revoked, deprecated |-> deprecated,
     external_references |-> refs, kill_chain_phases |-> phases,
     missing |-> missing]

T1 == <<"T", "1">>
T2 == <<"T", "2">>
T3 == <<"T", "3">>
T9 == <<"T", "9">>
T10 == <<"T", "1", "0">>
T1_0 == <<"T", "1", ".", "0">>
T1_01 == <<"T", "1", ".", "0", "1">>
T1_2 == <<"T", "1", ".", "2">>
T1_10 == <<"T", "1", ".", "1", "0">>

TacExecution == TacticObj("x-mitre-tactic--1", "Execution", "execution")
TacPersistence == TacticObj("x-mitre-tactic--2", "Persistence", "persistence")
TacDiscovery == TacticObj("x-mitre-tactic--4", "Discovery", "discovery")
\* A tactic object without a name.
TacNameless ==
    [type |-> "x-mitre-tactic", id |-> "x-mitre-tactic--3", name |-> "",
     x_mitre_shortname |-> "collection", revoked |-> FALSE, deprecated |-> FALSE,
     external_references |-> <<>>, kill_chain_phases |-> <<>>,
     missing |-> {"name"}]

ApT1 == PatternObj("attack-pattern--1", "Interpreter", <<MitreRef(T1)>>,
                   <<Phase("mitre-attack", "execution")>>, FALSE, FALSE, {})
ApT2 == PatternObj("attack-pattern--2", "Scheduled Task", <<MitreRef(T2)>>,
                   <<Phase("mitre-attack", "execution"),
                     Phase("mitre-attack", "persistence")>>, FALSE, FALSE, {})
ApT2only == PatternObj("attack-pattern--2b", "Native API", <<MitreRef(T2)>>,
                   <<Phase("mitre-attack", "execution")>>, FALSE, FALSE, {})
ApT1_01 == PatternObj("attack-pattern--3", "PowerShell", <<MitreRef(T1_01)>>,
                   <<Phase("mitre-attack", "persistence")>>, FALSE, FALSE, {})
ApT10 == PatternObj("attack-pattern--4", "Winlogon", <<MitreRef(T10)>>,
                   <<Phase("lockheed", "execution"),
                     Phase("mitre-attack", "Execution")>>, FALSE, FALSE, {})
ApRevoked == PatternObj("attack-pattern--5", "Old", <<MitreRef(T3)>>,
                   <<Phase("mitre-attack", "execution")>>, TRUE, FALSE, {})
ApDeprecated == PatternObj("attack-pattern--6", "Older", <<MitreRef(T9)>>,
                   <<Phase("mitre-attack", "execution")>>, FALSE, TRUE, {})
ApCapecOnly == PatternObj("attack-pattern--7", "Capec", <<CapecRef(T3)>>,
                   <<Phase("mitre-attack", "execution")>>, FALSE, FALSE, {})
ApEmptyId == PatternObj("attack-pattern--8", "Blank", <<MitreRef(<<>>)>>,
                   <<Phase("mitre-attack", "execution")>>, FALSE, FALSE, {})
ApNoExternalId == PatternObj("attack-pattern--9", "NoId", <<MitreRefNoId>>,
                   <<Phase("mitre-attack", "execution")>>, FALSE, FALSE, {})
ApBare == PatternObj("attack-pattern--10", "Bare", <<>>, <<>>, FALSE, FALSE,
                   {"external_references", "kill_chain_phases"})
ApT1_0 == PatternObj("attack-pattern--11", "Zero",
                   <<CapecRef(T9), MitreRef(T1_0), MitreRef(T9)>>, <<>>,
                   FALSE, FALSE, {})
ApT1_10 == PatternObj("attack-pattern--12", "Ten", <<MitreRef(T1_10)>>,
                   <<Phase("mitre-attack", "execution")>>, FALSE, FALSE, {})
ApT1_2 == PatternObj("attack-pattern--13", "Two", <<MitreRef(T1_2)>>,
                   <<Phase("mitre-attack", "collection")>>, FALSE, FALSE, {})
\* Timestamps of the corpus, and one that is no date.
Created2017 == "2017-06-01T12:00:00.000Z"
Modified2025 == "2025-05-06T12:00:00.000Z"
NotADate == "n/a"

IdentityObj ==
    [type |-> "identity", id |-> "identity--1", name |-> "The MITRE Corporation",
     x_mitre_shortname |-> "", revoked |-> FALSE, deprecated |-> FALSE,
     external_references |-> <<>>, kill_chain_phases |-> <<>>, missing |-> {},
     created |-> Created2017]
\* An identity of another publisher, and the publisher's without a date.
IdentityOther == [IdentityObj EXCEPT !.id = "identity--2", !.name = "Other"]
IdentityNoCreated ==
    [IdentityObj EXCEPT !.id = "identity--3", !.missing = {"created"},
                        !.created = ""]

\* The collection object: with version and date, with a date that does not
\* parse, and with neither.
CollectionObj ==
    [type |-> "x-mitre-collection", id |-> "x-mitre-collection--1",
     name |-> "Enterprise ATT&CK", x_mitre_shortname |-> "",
     revoked |-> FALSE, deprecated |-> FALSE, external_references |-> <<>>,
     kill_chain_phases |-> <<>>, missing |-> {},
     x_mitre_version |-> "17.1", modified |-> Modified2025]
CollectionBadDate ==
    [CollectionObj EXCEPT !.id = "x-mitre-collection--2",
                          !.missing = {"x_mitre_version"},
                          !.x_mitre_version = "", !.modified = NotADate]
CollectionBare ==
    [CollectionObj EXCEPT !.id = "x-mitre-collection--3",
                          !.missing = {"x_mitre_version", "modified"},
                          !.x_mitre_version = "", !.modified = ""]

\* The objects a corpus document is made of.
ObjectPool ==
    {TacExecution, TacPersistence, TacDiscovery, TacNameless, ApT1, ApT2, ApT1_01, ApT10, ApRevoked,
     ApDeprecated, ApCapecOnly, ApEmptyId, ApNoExternalId, ApBare, ApT1_0,
     ApT1_10, ApT1_2, IdentityObj}

\* Sequences of at most n different objects of S, in any order.
RECURSIVE SeqsUpTo(_, _)
SeqsUpTo(S, n) ==
    IF n = 0 THEN {<<>>}
    ELSE LET shorter == SeqsUpTo(S, n - 1)
         IN shorter \cup
            {Append(s, x) : s \in {t \in shorter : Len(t) = n - 1},
                            x \in S}

NoRepeat(s) == \A i, j \in 1..Len(s) : i # j => s[i] # s[j]

\* The value of this.attackData: null until a document has been fetched, then
\* the parsed JSON, which may or may not have an object collection.
\* spec_version is a list of no element when the document has none.
NoDocument ==
    [isNull |-> TRUE, hasObjects |-> FALSE, objects |-> <<>>, spec_version |-> <<>>]
NoObjectsDocument ==
    [isNull |-> FALSE, hasObjects |-> FALSE, objects |-> <<>>, spec_version |-> <<>>]
Document(objs) ==
    [isNull |-> FALSE, hasObjects |-> TRUE, objects |-> objs, spec_version |-> <<>>]
DocumentOfVersion(objs, version) ==
    [isNull |-> FALSE, hasObjects |-> TRUE, objects |-> objs,
     spec_version |-> <<version>>]

\* Every document of at most MaxObjects different pool objects.
AllCorpora ==
    {NoObjectsDocument} \cup
    {Document(objs) : objs \in {s \in SeqsUpTo(ObjectPool, MaxObjects) : NoRepeat(s)}}

\* The documents the metadata label is computed for: at most MaxObjects
\* objects, with and without a spec version.
MetadataPool ==
    {CollectionObj, CollectionBadDate, CollectionBare, IdentityObj,
     IdentityOther, IdentityNoCreated, TacExecution, ApT1}

MetadataCorpora ==
    {NoDocument, NoObjectsDocument} \cup
    {Document(objs) :
        objs \in {s \in SeqsUpTo(MetadataPool, MaxObjects) : NoRepeat(s)}} \cup
    {DocumentOfVersion(objs, "2.1") :
        objs \in {s \in SeqsUpTo(MetadataPool, MaxObjects) : NoRepeat(s)}}

\* The document the application is run with when detections are edited: one
\* tactic with two techniques.
ScenarioCorpus == Document(<<TacExecution, ApT1, ApT2only>>)
AppCorpora == {ScenarioCorpus}

\* ------------------------------------------------------ processAttackData
Map(s, F(_)) == [i \in 1..Len(s) |-> F(s[i])]

\* String.prototype.localeCompare on the tactic names of the model, which
\* collate in this order.
CollationOrder ==
    <<"Collection", "Discovery", "Execution", "Persistence", "undefined">>
Rank(name) == CHOOSE i \in 1..Len(CollationOrder) : CollationOrder[i] = name
localeCompare(a, b) == Rank(a) - Rank(b)

\* ToString of a tactic's name, which is undefined when the object had none.
nameText(tactic) == IF tactic.hasName THEN tactic.name ELSE "undefined"

\* a.name.localeCompare(b.name): a TypeError when a has no name, while a
\* missing b.name is compared as the text "undefined".
compareTacticsThrows(a, b) == ~a.hasName
compareTactics(a, b) == localeCompare(nameText(a), nameText(b))

\* A comparator that looks at the number before the '.' only.
compareTechniques_PrimaryOnly(a, b) ==
    LET aNum == parseFloat(split(substring(a.id, 1), ".")[1])
        bNum == parseFloat(split(substring(b.id, 1), ".")[1])
    IN Minus(aNum, bNum)

\* The comparator of the technique sort: the number after the leading letter
\* first, then the number after the '.' (0 without one).
compareTechniques(a, b) ==
    LET aNum == parseFloat(split(substring(a.id, 1), ".")[1])
        bNum == parseFloat(split(substring(b.id, 1), ".")[1])
        aSubNum == IF includes(a.id, ".") THEN parseFloat(split(a.id, ".")[2])
                   ELSE Num(0)
        bSubNum == IF includes(b.id, ".") THEN parseFloat(split(b.id, ".")[2])
                   ELSE Num(0)
    IN IF StrictNotEqual(aNum, bNum) THEN Minus(aNum, bNum)
       ELSE Minus(aSubNum, bSubNum)

\* Array.prototype.sort: a comparator result of NaN counts as 0, and the sort
\* is stable.  An element goes behind the last one that does not compare
\* greater than it.
SortCompareTechniques(a, b) ==
    LET v == compareTechniques(a, b) IN IF v.nan THEN 0 ELSE v.val

InsertAt(sorted, k, x) ==
    SubSeq(sorted, 1, k) \o <<x>> \o SubSeq(sorted, k + 1, Len(sorted))

LastNotGreater(sorted, x, Cmp(_, _)) ==
    LET ks == {i \in 1..Len(sorted) : Cmp(sorted[i], x) <= 0}
    IN IF ks = {} THEN 0 ELSE CHOOSE k \in ks : \A j \in ks : j <= k

RECURSIVE sortTechniques(_)
sortTechniques(list) ==
    IF list = <<>> THEN <<>>
    ELSE LET sorted == sortTechniques(SubSeq(list, 1, Len(list) - 1))
             x == list[Len(list)]
         IN InsertAt(sorted, LastNotGreater(sorted, x, SortCompareTechniques), x)

RECURSIVE sortTactics(_)
sortTactics(list) ==
    IF list = <<>> THEN <<>>
    ELSE LET sorted == sortTactics(SubSeq(list, 1, Len(list) - 1))
             x == list[Len(list)]
         IN InsertAt(sorted, LastNotGreater(sorted, x, compareTactics), x)

IsTacticObject(obj) == obj.type = "x-mitre-tactic"

toTactic(tactic) ==
    [id |-> tactic.id, name |-> tactic.name, hasName |-> Has(tactic, "name"),
     shortName |-> tactic.x_mitre_shortname]

extractTactics(objects) ==
    sortTactics(Map(SelectSeq(objects, IsTacticObject), toTactic))

\* Which pairs the sort hands to its comparator, and in which order, is the
\* engine's choice: with two or more tactics of which one has no name, the
\* sort may call the comparator with the nameless one first and throw, or
\* never do so and put it last.  With fewer than two tactics the comparator
\* is not called.
tacticSortOutcomes(objects) ==
    LET mapped == Map(SelectSeq(objects, IsTacticObject), toTactic)
    IN IF Len(mapped) >= 2
          /\ \E i, j \in 1..Len(mapped) :
                i # j /\ compareTacticsThrows(mapped[i], mapped[j])
       THEN {TRUE, FALSE}
       ELSE {FALSE}

\* A filter that forgets the deprecated flag.
IsLiveAttackPattern_RevokedOnly(obj) ==
    obj.type = "attack-pattern" /\ ~obj.revoked

\* obj.type === 'attack-pattern' && !obj.revoked && !obj.deprecated
IsLiveAttackPattern(obj) ==
    obj.type = "attack-pattern" /\ ~obj.revoked /\ ~obj.deprecated

\* tech.external_references || [] and tech.kill_chain_phases || []
externalRefsOf(tech) ==
    IF Has(tech, "external_references") THEN tech.external_references ELSE <<>>

killChainPhasesOf(tech) ==
    IF Has(tech, "kill_chain_phases") THEN tech.kill_chain_phases ELSE <<>>

IsMitreRef(ref) == ref.source_name = "mitre-attack"
IsMitrePhase(phase) == phase.kill_chain_name = "mitre-attack"
phaseName(phase) == phase.phase_name

\* externalRefs.find(...): the first matching reference, as a list of 0 or 1.
mitreRefOf(tech) ==
    LET found == SelectSeq(externalRefsOf(tech), IsMitreRef)
    IN IF found = <<>> THEN <<>> ELSE <<found[1]>>

\* techniqueId.includes('.') on an undefined external_id is a TypeError.
MapThrows(tech) ==
    LET mitreRef == mitreRefOf(tech)
    IN mitreRef # <<>> /\ ~Has(mitreRef[1], "external_id")

\* A mapping that takes the parent from the last '.' on.
toTechnique_LastPiece(tech) ==
    LET mitreRef == mitreRefOf(tech)
        techniqueId == IF mitreRef # <<>> THEN mitreRef[1].external_id ELSE <<>>
        isSubTechnique == includes(techniqueId, ".")
        pieces == split(techniqueId, ".")
        parentId == IF isSubTechnique THEN pieces[Len(pieces)] ELSE null
    IN [id |-> techniqueId,
        stixId |-> tech.id,
        name |-> tech.name,
        isSubTechnique |-> isSubTechnique,
        parentId |-> parentId,
        tactics |-> Map(SelectSeq(killChainPhasesOf(tech), IsMitrePhase), phaseName)]

toTechnique(tech) ==
    LET mitreRef == mitreRefOf(tech)
        techniqueId == IF mitreRef # <<>> THEN mitreRef[1].external_id ELSE <<>>
        isSubTechnique == includes(techniqueId, ".")
        parentId == IF isSubTechnique THEN split(techniqueId, ".")[1] ELSE null
    IN [id |-> techniqueId,
        stixId |-> tech.id,
        name |-> tech.name,
        isSubTechnique |-> isSubTechnique,
        parentId |-> parentId,
        tactics |-> Map(SelectSeq(killChainPhasesOf(tech), IsMitrePhase), phaseName)]

\* A filter that keeps every mapped entry.
HasValidId_Always(tech) == TRUE

\* .filter(tech => tech.id): the empty string is falsy.
HasValidId(tech) == tech.id # <<>>

extractTechniques(objects) ==
    sortTechniques(
        SelectSeq(Map(SelectSeq(objects, IsLiveAttackPattern), toTechnique),
                  HasValidId))

extractThrows(objects) ==
    \E i \in 1..Len(objects) :
        IsLiveAttackPattern(objects[i]) /\ MapThrows(objects[i])

\* objects.find(...): the first object that matches, as a list of 0 or 1.
IsCollection(obj) == obj.type = "x-mitre-collection"
IsPublisherIdentity(obj) ==
    obj.type = "identity" /\ obj.name = "The MITRE Corporation"

findCollection(objects) ==
    LET found == SelectSeq(objects, IsCollection)
    IN IF found = <<>> THEN <<>> ELSE <<found[1]>>

findIdentity(objects) ==
    LET found == SelectSeq(objects, IsPublisherIdentity)
    IN IF found = <<>> THEN <<>> ELSE <<found[1]>>

\* new Date(text).toLocaleDateString('en-US', {year, month: 'long', day}) in
\* a time zone less than twelve hours from UTC.
toLocaleDateString(text) ==
    CASE text = Created2017 -> "June 1, 2017"
      [] text = Modified2025 -> "May 6, 2025"
      [] OTHER -> "Invalid Date"

\* A label that names the spec version whether the document has one or not.
mitreVersionOf_AlwaysStix(data, old) ==
    IF data.isNull \/ ~data.hasObjects THEN old
    ELSE <<"MITRE ATT&CK ", "v?", " - ", " | STIX ", "undefined">>

\* this.mitreVersion after processAttackData, as the pieces the label is put
\* together from: the version number of the collection object ('v?' without
\* one), then its modified date or else the publisher identity's created
\* date, then the spec version.
mitreVersionOf(data, old) ==
    IF data.isNull \/ ~data.hasObjects THEN old
    ELSE LET collectionObj == findCollection(data.objects)
             identityObj == findIdentity(data.objects)
             mitreVersionNumber ==
                 IF /\ collectionObj # <<>>
                    /\ Has(collectionObj[1], "x_mitre_version")
                    /\ collectionObj[1].x_mitre_version # ""
                 THEN <<"v", collectionObj[1].x_mitre_version>>
                 ELSE <<"v?">>
             updated ==
                 IF /\ collectionObj # <<>>
                    /\ Has(collectionObj[1], "modified")
                    /\ collectionObj[1].modified # ""
                 THEN <<"Updated: ", toLocaleDateString(collectionObj[1].modified)>>
                 ELSE <<>>
             dated ==
                 IF updated # <<>> THEN updated
                 ELSE IF /\ identityObj # <<>>
                         /\ Has(identityObj[1], "created")
                         /\ identityObj[1].created # ""
                 THEN <<"Created: ", toLocaleDateString(identityObj[1].created)>>
                 ELSE <<>>
             mitreVersionDetails ==
                 IF data.spec_version # <<>>
                 THEN dated \o <<" | STIX ", data.spec_version[1]>>
                 ELSE dated
         IN <<"MITRE ATT&CK ">> \o mitreVersionNumber
            \o (IF mitreVersionDetails # <<>>
                THEN <<" - ">> \o mitreVersionDetails ELSE <<>>)

\* The fields processAttackData leaves behind, given the ones it found.  An
\* exception in the tactic sort leaves both lists as they were; an exception
\* in the technique mapping leaves this.techniques as it was, after
\* this.tactics has been assigned.
processAttackData(data, oldTactics, oldTechniques, tacticSortThrows) ==
    IF data.isNull \/ ~data.hasObjects
    THEN [tactics |-> oldTactics, techniques |-> oldTechniques, threw |-> FALSE]
    ELSE IF tacticSortThrows
    THEN [tactics |-> oldTactics, techniques |-> oldTechniques, threw |-> TRUE]
    ELSE IF extractThrows(data.objects)
    THEN [tactics |-> extractTactics(data.objects),
          techniques |-> oldTechniques, threw |-> TRUE]
    ELSE [tactics |-> extractTactics(data.objects),
          techniques |-> extractTechniques(data.objects), threw |-> FALSE]

\* ------------------------------------------------------------ detections
\* A value of this.detections or of a JSON document's detections field: an
\* array, or a value of another JSON type (none of which has filter, find,
\* findIndex, forEach or push).
Arr(elems) == [kind |-> "array", elems |-> elems]
NonArray(kind) == [kind |-> kind, elems |-> <<>>]

\* An absent createdAt (a record replaced by an edit has none).
NoTime == 0 - 2

Detection(id, name, isActive, technique1, technique2, technique3, updatedAt, createdAt) ==
    [id |-> id, name |-> name, description |-> <<>>, platform |-> "",
     severity |-> "", isActive |-> isActive, technique1 |-> technique1,
     technique2 |-> technique2, technique3 |-> technique3,
     updatedAt |-> updatedAt, createdAt |-> createdAt]

\* localStorage under the key 'mitre_detections': no item, or a text that is
\* the JSON of a value, or a text that is not JSON at all.
\* JSON.stringify of a record, as the list of its members in the order the
\* object got them; a record without createdAt has no such member.
stringifyRecord(d) ==
    << <<"id", d.id>>, <<"name", d.name>>, <<"description", d.description>>,
       <<"platform", d.platform>>, <<"severity", d.severity>>,
       <<"isActive", d.isActive>>, <<"technique1", d.technique1>>,
       <<"technique2", d.technique2>>, <<"technique3", d.technique3>>,
       <<"updatedAt", d.updatedAt>> >>
    \o (IF d.createdAt # NoTime THEN << <<"createdAt", d.createdAt>> >> ELSE <<>>)

\* A parse that would fill in a missing createdAt from updatedAt.
parseRecord_Stamped(members) ==
    LET HasKey(key) == \E i \in 1..Len(members) : members[i][1] = key
        Get(key) == members[CHOOSE i \in 1..Len(members) : members[i][1] = key][2]
    IN [id |-> Get("id"), name |-> Get("name"),
        description |-> Get("description"), platform |-> Get("platform"),
        severity |-> Get("severity"), isActive |-> Get("isActive"),
        technique1 |-> Get("technique1"), technique2 |-> Get("technique2"),
        technique3 |-> Get("technique3"), updatedAt |-> Get("updatedAt"),
        createdAt |-> IF HasKey("createdAt") THEN Get("createdAt")
                      ELSE Get("updatedAt")]

\* JSON.parse of such a text: the object with the members of the text.
parseRecord(members) ==
    LET HasKey(key) == \E i \in 1..Len(members) : members[i][1] = key
        Get(key) == members[CHOOSE i \in 1..Len(members) : members[i][1] = key][2]
    IN [id |-> Get("id"), name |-> Get("name"),
        description |-> Get("description"), platform |-> Get("platform"),
        severity |-> Get("severity"), isActive |-> Get("isActive"),
        technique1 |-> Get("technique1"), technique2 |-> Get("technique2"),
        technique3 |-> Get("technique3"), updatedAt |-> Get("updatedAt"),
        createdAt |-> IF HasKey("createdAt") THEN Get("createdAt") ELSE NoTime]

\* JSON.stringify and JSON.parse of a value of this.detections.
JSONstringify(value) ==
    [kind |-> value.kind,
     items |-> [i \in 1..Len(value.elems) |-> stringifyRecord(value.elems[i])]]

JSONparse(text) ==
    [kind |-> text.kind,
     elems |-> [i \in 1..Len(text.items) |-> parseRecord(text.items[i])]]

NoItem == [present |-> FALSE, valid |-> FALSE, text |-> JSONstringify(Arr(<<>>))]
CorruptItem == [present |-> TRUE, valid |-> FALSE, text |-> JSONstringify(Arr(<<>>))]
\* The item that holds JSON.stringify(value).
stringify(value) == [present |-> TRUE, valid |-> TRUE, text |-> JSONstringify(value)]

RuleA == <<"A">>
\* Records of an earlier session (its clock read Earlier).
Earlier == 0 - 1
StoredT1 == Detection(<<"det_", Earlier, "_", 1>>, RuleA, TRUE, T1, <<>>, <<>>, 0, 0)
StoredT2Off == Detection(<<"det_", Earlier, "_", 2>>, RuleA, FALSE, T2, <<>>, T1_01, 0, 0)
StoredT10 == Detection(<<"det_", Earlier, "_", 3>>, RuleA, TRUE, <<>>, T10, T10, 0, 0)
StoredSub == Detection(<<"det_", Earlier, "_", 4>>, RuleA, TRUE, T9, T1_01, T2, 0, 0)

VARIABLES
    pc,                 \* position of init(): the step that runs next
    loading,            \* the loading indicator is visible
    attackData,         \* this.attackData
    tactics,            \* this.tactics
    techniques,         \* this.techniques
    detections,         \* this.detections
    storage,            \* localStorage item 'mitre_detections'
    currentView,        \* this.currentView
    editingDetectionId, \* this.editingDetectionId
    modalOpen,          \* the detection modal has class 'active'
    alert,              \* what the last handler reported with alert(), if anything
    clock,              \* Date.now()
    mitreVersion,       \* this.mitreVersion
    download            \* the file exportData has handed to the browser, if any

vars == <<pc, loading, attackData, tactics, techniques, detections, storage,
          currentView, editingDetectionId, modalOpen, alert, clock,
          mitreVersion, download>>

\* ------------------------------------------------------- coverage engine
TypeError == "TypeError"

\* this.detections.filter(...) and its relatives exist on arrays only.
IsArray(v) == v.kind = "array"

References(det, techniqueId) ==
    \/ det.technique1 = techniqueId
    \/ det.technique2 = techniqueId
    \/ det.technique3 = techniqueId

\* A count of the matching slots instead of the matching records.
getDetectionRulesForTechnique_PerSlot(techniqueId) ==
    IF ~IsArray(detections) THEN TypeError
    ELSE LET Active(det) == det.isActive
             active == SelectSeq(detections.elems, Active)
             Slot1(det) == det.technique1 = techniqueId
             Slot2(det) == det.technique2 = techniqueId
             Slot3(det) == det.technique3 = techniqueId
         IN Len(SelectSeq(active, Slot1)) + Len(SelectSeq(active, Slot2))
            + Len(SelectSeq(active, Slot3))

getDetectionRulesForTechnique(techniqueId) ==
    IF ~IsArray(detections) THEN TypeError
    ELSE LET Matches(det) == det.isActive /\ References(det, techniqueId)
         IN Len(SelectSeq(detections.elems, Matches))

getTechniqueStatus(technique) ==
    IF ~IsArray(detections) THEN TypeError
    ELSE IF getDetectionRulesForTechnique(technique.id) > 0 THEN "detected"
         ELSE "not detected"

calculateCoverage(technique) ==
    IF ~IsArray(detections) THEN TypeError
    ELSE IF getTechniqueStatus(technique) = "detected" THEN 1 ELSE 0

\* A JavaScript number that is a quotient of two integers, 0/0 being NaN.
Finite(n, d) == [kind |-> "finite", num |-> n, den |-> d]
NotANumber == [kind |-> "NaN", num |-> 0, den |-> 0]
Infinity == [kind |-> "Infinity", num |-> 1, den |-> 0]
Divide(n, d) ==
    IF d # 0 THEN Finite(n, d) ELSE IF n = 0 THEN NotANumber ELSE Infinity
Times(x, k) == IF x.kind = "finite" THEN Finite(x.num * k, x.den) ELSE x
\* x === y for such numbers (NaN equals nothing).
NumEq(x, y) ==
    /\ x.kind # "NaN" /\ y.kind # "NaN" /\ x.kind = y.kind
    /\ x.kind = "finite" => x.num * y.den = y.num * x.den

\* Number.prototype.toFixed(1): the text, as the number of tenths it shows
\* (nearest, the larger of two equally near), or the text "NaN"/"Infinity".
toFixed1(x) ==
    IF x.kind # "finite" THEN [text |-> x.kind, tenths |-> 0]
    ELSE [text |-> "number", tenths |-> (20 * x.num + x.den) \div (2 * x.den)]

\* totalCoverage after the forEach over a list of techniques.
RECURSIVE totalCoverageOf(_)
totalCoverageOf(list) ==
    IF list = <<>> THEN 0
    ELSE totalCoverageOf(SubSeq(list, 1, Len(list) - 1))
         + calculateCoverage(list[Len(list)])

\* renderDashboard: totalCoverage / this.techniques.length, and the percentage
\* it writes into #overallCoverage.
overallCoverage ==
    IF ~IsArray(detections) THEN TypeError
    ELSE Divide(totalCoverageOf(techniques), Len(techniques))

overallCoveragePercent ==
    IF ~IsArray(detections) THEN TypeError
    ELSE toFixed1(Times(overallCoverage, 100))

\* The filter of the matrix view, which leaves sub-techniques out.
tacticTechniquesOf_TopLevel(tactic) ==
    LET IsMember(tech) ==
            /\ \E i \in 1..Len(tech.tactics) : tech.tactics[i] = tactic.shortName
            /\ ~tech.isSubTechnique
    IN SelectSeq(techniques, IsMember)

\* A filter that matches the display name of the tactic.
tacticTechniquesOf_ByName(tactic) ==
    LET IsMember(tech) == \E i \in 1..Len(tech.tactics) : tech.tactics[i] = tactic.name
    IN SelectSeq(techniques, IsMember)

\* renderTacticCoverage: the techniques of a tactic, and the entry of
\* tacticCoverageData for it.
tacticTechniquesOf(tactic) ==
    LET IsMember(tech) == \E i \in 1..Len(tech.tactics) : tech.tactics[i] = tactic.shortName
    IN SelectSeq(techniques, IsMember)

tacticCoverage(tactic) ==
    LET tacticTechniques == tacticTechniquesOf(tactic)
    IN IF tacticTechniques # <<>> /\ ~IsArray(detections) THEN TypeError
       ELSE [name |-> tactic.name,
             coverage |-> IF Len(tacticTechniques) > 0
                          THEN Times(Divide(totalCoverageOf(tacticTechniques),
                                            Len(tacticTechniques)), 100)
                          ELSE Finite(0, 1),
             count |-> Len(tacticTechniques)]

\* The same computations as functions of the two lists they read, records
\* being the elements of this.detections and list this.techniques.
\* A count that would look at the first record only.
detectionRulesIn_FirstRecord(records, techniqueId) ==
    IF records # <<>> /\ records[1].isActive /\ References(records[1], techniqueId)
    THEN 1 ELSE 0

\* getDetectionRulesForTechnique(techniqueId).length
detectionRulesIn(records, techniqueId) ==
    LET Matches(det) == det.isActive /\ References(det, techniqueId)
    IN Len(SelectSeq(records, Matches))

\* getTechniqueStatus and calculateCoverage
techniqueStatusIn(records, technique) ==
    IF detectionRulesIn(records, technique.id) > 0 THEN "detected"
    ELSE "not detected"

coverageIn(records, technique) ==
    IF techniqueStatusIn(records, technique) = "detected" THEN 1 ELSE 0

\* totalCoverage of the forEach loops
RECURSIVE totalCoverageIn(_, _)
totalCoverageIn(records, list) ==
    IF list = <<>> THEN 0
    ELSE totalCoverageIn(records, SubSeq(list, 1, Len(list) - 1))
         + coverageIn(records, list[Len(list)])

\* renderDashboard: totalCoverage / this.techniques.length
overallCoverageIn(list, records) ==
    Divide(totalCoverageIn(records, list), Len(list))

\* renderTacticCoverage: the entry of one tactic
tacticCoverageIn(list, records, tactic) ==
    LET IsMember(tech) ==
            \E i \in 1..Len(tech.tactics) : tech.tactics[i] = tactic.shortName
        tacticTechniques == SelectSeq(list, IsMember)
    IN [name |-> tactic.name,
        coverage |-> IF Len(tacticTechniques) > 0
                     THEN Times(Divide(totalCoverageIn(records, tacticTechniques),
                                       Len(tacticTechniques)), 100)
                     ELSE Finite(0, 1),
        count |-> Len(tacticTechniques)]

\* renderSpiderChart: the tactics of the chart in kill chain order.
killChainOrder ==
    <<"reconnaissance", "resource-development", "initial-access", "execution",
      "persistence", "privilege-escalation", "defense-evasion",
      "credential-access", "discovery", "lateral-movement", "collection",
      "command-and-control", "exfiltration", "impact">>

\* A chart that would take the tactics of the order as this.tactics lists them.
killChainProjection_DisplayOrder(order) ==
    LET InOrder(tactic) == \E k \in 1..Len(order) : order[k] = tactic.shortName
        shown == SelectSeq(tactics, InOrder)
    IN [j \in 1..Len(shown) |->
           [name |-> shown[j].name, coverage |-> tacticCoverage(shown[j]).coverage]]

\* tacticData of renderSpiderChart: for every shortName of the order the first
\* tactic that has it, with the coverage of the techniques that list the
\* shortName, and nothing for a shortName that no tactic has.
killChainProjection(order) ==
    LET Found(k) == \E i \in 1..Len(tactics) : tactics[i].shortName = order[k]
        found == SelectSeq([k \in 1..Len(order) |-> k], Found)
        Entry(shortName) ==
            LET tactic == tactics[CHOOSE i \in 1..Len(tactics) :
                                    /\ tactics[i].shortName = shortName
                                    /\ \A h \in 1..(i - 1) :
                                          tactics[h].shortName # shortName]
                IsMember(tech) ==
                    \E i \in 1..Len(tech.tactics) : tech.tactics[i] = shortName
                tacticTechniques == SelectSeq(techniques, IsMember)
            IN IF tacticTechniques # <<>> /\ ~IsArray(detections) THEN TypeError
               ELSE [name |-> tactic.name,
                     coverage |-> IF Len(tacticTechniques) > 0
                                  THEN Times(Divide(totalCoverageOf(tacticTechniques),
                                                    Len(tacticTechniques)), 100)
                                  ELSE Finite(0, 1)]
    IN [j \in 1..Len(found) |-> Entry(order[found[j]])]

\* renderCurrentView throws when the view it renders reads this.detections as
\* an array and it is none.
renderThrows(view, value) ==
    CASE view = "dashboard" -> ~IsArray(value)
      [] view = "techniques" -> ~IsArray(value) /\ techniques # <<>>
      [] view = "detections" -> ~IsArray(value)

renderCurrentViewThrows == renderThrows(currentView, detections)

\* ---------------------------------------------------------------- start-up
\* What localStorage holds when the page is opened: nothing, a text that is
\* no JSON, or what saveUserData of an earlier visit has written, which is the
\* text of a number after the import of a file whose detections is one.
InitialStorage ==
    {NoItem, CorruptItem, stringify(Arr(<<StoredT2Off, StoredT10>>)),
     stringify(NonArray("number"))}

\* The state after the constructor: init() has shown the loading indicator
\* and waits for the fetch of loadAttackData.
Init ==
    /\ pc = "loadAttackData"
    /\ loading = TRUE
    /\ attackData = NoDocument
    /\ tactics = <<>>
    /\ techniques = <<>>
    /\ detections = Arr(<<>>)
    /\ storage \in InitialStorage
    /\ currentView = "dashboard"
    /\ editingDetectionId = <<>>
    /\ modalOpen = FALSE
    /\ alert = "none"
    /\ clock = 0
    /\ mitreVersion = <<"Loading...">>
    /\ download = <<>>

\* The same, with the stored collections the coverage of a corpus is
\* computed against.
NormalizeStorage ==
    {NoItem, stringify(Arr(<<StoredT1>>)),
     stringify(Arr(<<StoredT2Off, StoredT10>>)),
     stringify(Arr(<<StoredT1, StoredSub, StoredT10>>))}

InitNormalize ==
    /\ pc = "loadAttackData"
    /\ loading = TRUE
    /\ attackData = NoDocument
    /\ tactics = <<>>
    /\ techniques = <<>>
    /\ detections = Arr(<<>>)
    /\ storage \in NormalizeStorage
    /\ currentView = "dashboard"
    /\ editingDetectionId = <<>>
    /\ modalOpen = FALSE
    /\ alert = "none"
    /\ clock = 0
    /\ mitreVersion = <<"Loading...">>
    /\ download = <<>>

\* loadAttackData: the fetch fails (network error, status not ok, body not
\* JSON), or it delivers a document that processAttackData normalizes; every
\* exception ends in the catch block's alert.
loadAttackData(corpora) ==
    /\ pc = "loadAttackData"
    /\ \/ /\ alert' = "load-failed"
          /\ UNCHANGED <<attackData, tactics, techniques, mitreVersion>>
       \/ \E doc \in corpora :
          \E tacticSortThrows \in tacticSortOutcomes(doc.objects) :
             LET r == processAttackData(doc, tactics, techniques, tacticSortThrows)
             IN /\ attackData' = doc
                /\ mitreVersion' = mitreVersionOf(doc, mitreVersion)
                /\ tactics' = r.tactics
                /\ techniques' = r.techniques
                /\ alert' = IF r.threw THEN "load-failed" ELSE "none"
    /\ pc' = "loadUserData"
    /\ UNCHANGED <<loading, detections, storage, currentView,
                   editingDetectionId, modalOpen, clock, download>>

\* loadUserData: an item that is there replaces this.detections by its
\* parsed value, or by [] when it does not parse.
loadUserData ==
    /\ pc = "loadUserData"
    /\ detections' = IF ~storage.present THEN detections
                     ELSE IF storage.valid THEN JSONparse(storage.text)
                     ELSE Arr(<<>>)
    /\ pc' = "setupEventListeners"
    /\ UNCHANGED <<mitreVersion, download,
                   loading, attackData, tactics, techniques, storage,
                   currentView, editingDetectionId, modalOpen, alert, clock>>

setupEventListeners ==
    /\ pc = "setupEventListeners"
    /\ pc' = "renderCurrentView"
    /\ UNCHANGED <<mitreVersion, download,
                   loading, attackData, tactics, techniques, detections,
                   storage, currentView, editingDetectionId, modalOpen, alert,
                   clock>>

\* The first render; an exception in it ends init() before showLoading(false).
renderCurrentView ==
    /\ pc = "renderCurrentView"
    /\ pc' = IF renderCurrentViewThrows THEN "failed" ELSE "showLoading"
    /\ UNCHANGED <<mitreVersion, download,
                   loading, attackData, tactics, techniques, detections,
                   storage, currentView, editingDetectionId, modalOpen, alert,
                   clock>>

showLoading ==
    /\ pc = "showLoading"
    /\ loading' = FALSE
    /\ pc' = "ready"
    /\ UNCHANGED <<mitreVersion, download,
                   attackData, tactics, techniques, detections, storage,
                   currentView, editingDetectionId, modalOpen, alert, clock>>

\* ------------------------------------------------------------ user events
\* Events are dispatched once init() has run to its end, or has failed after
\* the listeners were registered.
Interactive == pc \in {"ready", "failed"}

Views == {"dashboard", "techniques", "detections"}

switchView(view) ==
    /\ Interactive
    /\ currentView' = view
    /\ alert' = "none"
    /\ UNCHANGED <<mitreVersion, download,
                   pc, loading, attackData, tactics, techniques, detections,
                   storage, editingDetectionId, modalOpen, clock>>

\* saveUserData: the item becomes the JSON of the collection.
saveUserData(value) == stringify(value)

\* String.prototype.trim and toUpperCase on the alphabet of the model.
RECURSIVE trimEnd(_)
trimEnd(s) ==
    IF s # <<>> /\ s[Len(s)] = " " THEN trimEnd(SubSeq(s, 1, Len(s) - 1)) ELSE s
\* A trim that removes nothing.
trim_Nothing(s) == s

trim(s) == trimEnd(SkipSpaces(s))
toUpperCase(s) == [i \in 1..Len(s) |-> IF s[i] = "t" THEN "T" ELSE s[i]]

\* generateId: 'det_' + Date.now() + '_' + nine characters of Math.random().
\* An id that ignores the clock.
generateId_NoClock(now, random) == <<"det_", 0 - 1, "_", random>>

generateId(now, random) == <<"det_", now, "_", random>>

\* An id no record of the collection has.
UnknownId == <<"det_", Earlier, "_", 9>>

\* Index of the first record with the id, 0 when there is none.
findIndex(elems, id) ==
    LET hits == {i \in 1..Len(elems) : elems[i].id = id}
    IN IF hits = {} THEN 0 ELSE CHOOSE i \in hits : \A j \in hits : i <= j

\* The ids the handlers are called with: those of the rendered records, and
\* one that is not in the collection.
KnownIds == {detections.elems[i].id : i \in 1..Len(detections.elems)}
CallIds == KnownIds \cup {UnknownId}

\* A toggle that flips every record once the id is found.
toggleDetectionActive_EveryRecord(detectionId) ==
    /\ Interactive
    /\ LET index == findIndex(detections.elems, detectionId)
       IN IF IsArray(detections) /\ index # 0
          THEN /\ detections' =
                     Arr([i \in 1..Len(detections.elems) |->
                             [detections.elems[i] EXCEPT
                                 !.isActive = ~detections.elems[i].isActive]])
               /\ storage' = saveUserData(detections')
          ELSE UNCHANGED <<detections, storage>>
    /\ alert' = "none"
    /\ UNCHANGED <<mitreVersion, download,
                   pc, loading, attackData, tactics, techniques, currentView,
                   editingDetectionId, modalOpen, clock>>

\* toggleDetectionActive(detectionId); find on a non-array is a TypeError
\* before anything is changed.
toggleDetectionActive(detectionId) ==
    /\ Interactive
    /\ LET index == findIndex(detections.elems, detectionId)
       IN IF IsArray(detections) /\ index # 0
          THEN /\ detections' =
                     Arr([detections.elems EXCEPT
                             ![index].isActive = ~detections.elems[index].isActive])
               /\ storage' = saveUserData(detections')
          ELSE UNCHANGED <<detections, storage>>
    /\ alert' = "none"
    /\ UNCHANGED <<mitreVersion, download,
                   pc, loading, attackData, tactics, techniques, currentView,
                   editingDetectionId, modalOpen, clock>>

\* The "Add Detection Rule" button.
addDetection ==
    /\ Interactive
    /\ editingDetectionId' = <<>>
    /\ modalOpen' = TRUE
    /\ alert' = "none"
    /\ UNCHANGED <<mitreVersion, download,
                   pc, loading, attackData, tactics, techniques, detections,
                   storage, currentView, clock>>

\* editDetection(detectionId): the id is remembered, the modal opens only
\* when the record is found.
editDetection(detectionId) ==
    /\ Interactive
    /\ editingDetectionId' = <<detectionId>>
    /\ modalOpen' = IF IsArray(detections)
                       /\ findIndex(detections.elems, detectionId) # 0
                    THEN TRUE ELSE modalOpen
    /\ alert' = "none"
    /\ UNCHANGED <<mitreVersion, download,
                   pc, loading, attackData, tactics, techniques, detections,
                   storage, currentView, clock>>

closeDetectionModal ==
    /\ Interactive
    /\ modalOpen
    /\ modalOpen' = FALSE
    /\ editingDetectionId' = <<>>
    /\ alert' = "none"
    /\ UNCHANGED <<mitreVersion, download,
                   pc, loading, attackData, tactics, techniques, detections,
                   storage, currentView, clock>>

\* deleteDetection(detectionId) with the answer to confirm().
deleteDetection(detectionId, confirmed) ==
    /\ Interactive
    /\ IF confirmed /\ IsArray(detections)
       THEN LET Keeps(d) == d.id # detectionId
            IN /\ detections' = Arr(SelectSeq(detections.elems, Keeps))
               /\ storage' = saveUserData(detections')
       ELSE UNCHANGED <<detections, storage>>
    /\ alert' = "none"
    /\ UNCHANGED <<mitreVersion, download,
                   pc, loading, attackData, tactics, techniques, currentView,
                   editingDetectionId, modalOpen, clock>>

\* What deleteDetection and toggleDetectionActive give back to their caller:
\* neither has a return statement.
deleteDetectionReturns(detectionId, confirmed) == "undefined"
toggleDetectionActiveReturns(detectionId) == "undefined"

\* What the user types into the form.
NameInputs == {<<>>, <<" ">>, <<" ", "A">>}
TechniqueInputs ==
    {<< T9, <<" ", "t", "1">>, T1 >>,
     << <<"t", "1", ".", "0", "1", " ">>, <<>>, T2 >>}

\* A submit handler that gives an edited record a new id.
saveDetection_NewId(nameInput, isActive, techniqueInput, now, random) ==
    LET name == trim(nameInput)
        editing == editingDetectionId # <<>>
        detection ==
            Detection(generateId(now, random),
                      name, isActive,
                      toUpperCase(trim(techniqueInput[1])),
                      toUpperCase(trim(techniqueInput[2])),
                      toUpperCase(trim(techniqueInput[3])),
                      now, IF editing THEN NoTime ELSE now)
        index == IF editing
                 THEN findIndex(detections.elems, editingDetectionId[1])
                 ELSE 0
    IN /\ Interactive
       /\ modalOpen
       /\ clock' = now
       /\ IF name = <<>>
          THEN /\ alert' = "name-required"
               /\ UNCHANGED <<detections, storage, editingDetectionId, modalOpen>>
          ELSE IF ~IsArray(detections)
          THEN \* findIndex or push is a TypeError: the handler ends there
               /\ alert' = "none"
               /\ UNCHANGED <<detections, storage, editingDetectionId, modalOpen>>
          ELSE /\ detections' =
                     IF editing
                     THEN IF index # 0
                          THEN Arr([detections.elems EXCEPT ![index] = detection])
                          ELSE detections
                     ELSE Arr(Append(detections.elems, detection))
               /\ storage' = saveUserData(detections')
               /\ modalOpen' = FALSE
               /\ editingDetectionId' = <<>>
               /\ alert' = "none"
       /\ UNCHANGED <<mitreVersion, download,
                      pc, loading, attackData, tactics, techniques, currentView>>

\* saveDetection, the submit handler of the form, at time now.
saveDetection(nameInput, isActive, techniqueInput, now, random) ==
    LET name == trim(nameInput)
        editing == editingDetectionId # <<>>
        detection ==
            Detection(IF editing THEN editingDetectionId[1]
                      ELSE generateId(now, random),
                      name, isActive,
                      toUpperCase(trim(techniqueInput[1])),
                      toUpperCase(trim(techniqueInput[2])),
                      toUpperCase(trim(techniqueInput[3])),
                      now, IF editing THEN NoTime ELSE now)
        index == findIndex(detections.elems, detection.id)
    IN /\ Interactive
       /\ modalOpen
       /\ clock' = now
       /\ IF name = <<>>
          THEN /\ alert' = "name-required"
               /\ UNCHANGED <<detections, storage, editingDetectionId, modalOpen>>
          ELSE IF ~IsArray(detections)
          THEN \* findIndex or push is a TypeError: the handler ends there
               /\ alert' = "none"
               /\ UNCHANGED <<detections, storage, editingDetectionId, modalOpen>>
          ELSE /\ detections' =
                     IF editing
                     THEN IF index # 0
                          THEN Arr([detections.elems EXCEPT ![index] = detection])
                          ELSE detections
                     ELSE Arr(Append(detections.elems, detection))
               /\ storage' = saveUserData(detections')
               /\ modalOpen' = FALSE
               /\ editingDetectionId' = <<>>
               /\ alert' = "none"
       /\ UNCHANGED <<mitreVersion, download,
                      pc, loading, attackData, tactics, techniques, currentView>>

\* The text of an imported file: not JSON (or JSON null, whose detections
\* cannot be read), JSON without a truthy detections field, or JSON with one.
NotJsonFile == [parses |-> FALSE, hasDetections |-> FALSE, detections |-> Arr(<<>>)]
NoDetectionsFile == [parses |-> TRUE, hasDetections |-> FALSE, detections |-> Arr(<<>>)]
DetectionsFile(value) == [parses |-> TRUE, hasDetections |-> TRUE, detections |-> value]

NonArrayKinds == {"string", "number", "object", "boolean"}
\* A record with the id of StoredT1 and other fields.
StoredT1Twin == [StoredT1 EXCEPT !.isActive = FALSE, !.technique1 = T2]

ImportFiles ==
    {NotJsonFile, NoDetectionsFile, DetectionsFile(Arr(<<>>)),
     DetectionsFile(Arr(<<StoredT1, StoredT2Off>>)),
     DetectionsFile(Arr(<<StoredT1, StoredT1Twin>>))}
    \cup {DetectionsFile(NonArray(k)) : k \in NonArrayKinds}

\* An import that appends the imported records to the collection.
importData_Merge(file) ==
    /\ Interactive
    /\ IF ~file.parses
       THEN /\ alert' = "import-error"
            /\ UNCHANGED <<detections, storage>>
       ELSE /\ detections' = IF file.hasDetections /\ IsArray(file.detections)
                                /\ IsArray(detections)
                             THEN Arr(detections.elems \o file.detections.elems)
                             ELSE IF file.hasDetections THEN file.detections
                             ELSE detections
            /\ storage' = saveUserData(detections')
            /\ alert' = IF renderThrows(currentView, detections')
                        THEN "import-error" ELSE "import-ok"
    /\ UNCHANGED <<mitreVersion, download,
                   pc, loading, attackData, tactics, techniques, currentView,
                   editingDetectionId, modalOpen, clock>>

\* importData: the onload handler of the file reader.  The collection is
\* replaced and saved before the render, whose exception ends in the catch
\* block's alert like a parse error does.
importData(file) ==
    /\ Interactive
    /\ IF ~file.parses
       THEN /\ alert' = "import-error"
            /\ UNCHANGED <<detections, storage>>
       ELSE /\ detections' = IF file.hasDetections THEN file.detections
                             ELSE detections
            /\ storage' = saveUserData(detections')
            /\ alert' = IF renderThrows(currentView, detections')
                        THEN "import-error" ELSE "import-ok"
    /\ UNCHANGED <<mitreVersion, download,
                   pc, loading, attackData, tactics, techniques, currentView,
                   editingDetectionId, modalOpen, clock>>

\* exportData: the browser gets a file with the JSON text of version, export
\* date and collection; nothing of the application changes.
exportData ==
    /\ Interactive
    /\ download' = << [version |-> "3.0", exportDate |-> clock,
                       detections |-> JSONstringify(detections)] >>
    /\ alert' = "none"
    /\ UNCHANGED <<pc, loading, attackData, tactics, techniques, detections,
                   storage, currentView, editingDetectionId, modalOpen, clock,
                   mitreVersion>>

\* JSON.parse of the text of an exported file.  The values of the model that
\* are no arrays stand for truthy ones.
parseExport(text) == DetectionsFile(JSONparse(text.detections))

\* A record as an edit leaves it, without createdAt.
StoredEdited == [StoredT2Off EXCEPT !.createdAt = NoTime, !.updatedAt = 1]

\* The files imported between exports.
RoundTripFiles ==
    {DetectionsFile(Arr(<<>>)), DetectionsFile(Arr(<<StoredT1, StoredEdited>>)),
     DetectionsFile(Arr(<<StoredT1, StoredT1Twin>>)),
     DetectionsFile(NonArray("number")), NoDetectionsFile}

\* ------------------------------------------------------- specifications
StartUp ==
    \/ loadUserData
    \/ setupEventListeners
    \/ renderCurrentView
    \/ showLoading

Next ==
    \/ loadAttackData(AppCorpora)
    \/ StartUp
    \/ \E view \in Views : switchView(view)
    \/ \E id \in CallIds : toggleDetectionActive(id)
    \/ addDetection
    \/ \E id \in KnownIds : editDetection(id)
    \/ closeDetectionModal
    \/ \E id \in CallIds, confirmed \in BOOLEAN : deleteDetection(id, confirmed)
    \/ \E nameInput \in NameInputs, isActive \in BOOLEAN,
          techniqueInput \in TechniqueInputs, now \in clock..MaxClock,
          random \in 1..MaxRandom :
            /\ editingDetectionId = <<>> => Len(detections.elems) < MaxDetections
            /\ saveDetection(nameInput, isActive, techniqueInput, now, random)
    \/ \E file \in ImportFiles : importData(file)

Spec == Init /\ [][Next]_vars

\* The start-up alone, over every corpus document of the pool.
NextNormalize ==
    \/ loadAttackData(AllCorpora)
    \/ StartUp

SpecNormalize == InitNormalize /\ [][NextNormalize]_vars

\* The start-up alone, over the documents of the metadata pool.
NextMetadata ==
    \/ loadAttackData(MetadataCorpora)
    \/ StartUp

SpecMetadata == InitNormalize /\ [][NextMetadata]_vars

\* Start-up with whatever an earlier visit has left in localStorage.  The
\* fetch of loadAttackData settles, and the steps of init() behind the await
\* run to the end of init() or to the exception that ends it.
SpecStartUp ==
    /\ Init
    /\ [][NextNormalize]_vars
    /\ WF_vars(loadAttackData(AllCorpora))
    /\ WF_vars(StartUp)

\* The application with the operations that change or copy the collection as
\* a whole, the import of the exported file among them.
NextRoundTrip ==
    \/ loadAttackData(AppCorpora)
    \/ StartUp
    \/ \E view \in Views : switchView(view)
    \/ \E id \in CallIds : toggleDetectionActive(id)
    \/ \E id \in CallIds : deleteDetection(id, TRUE)
    \/ \E file \in RoundTripFiles : importData(file)
    \/ exportData
    \/ download # <<>> /\ importData(parseExport(download[1]))

SpecRoundTrip == Init /\ [][NextRoundTrip]_vars

\* ------------------------------------------------------------- properties
\* The techniques and tactics of the scenario corpus, as normalized.
TechT1 == toTechnique(ApT1)
TechT2 == toTechnique(ApT2only)
TacticExecution == toTactic(TacExecution)

\* Stated on the records alone: the positions of the active records that
\* list the id in one of their three slots.
ActiveReferences(elems, techniqueId) ==
    {i \in 1..Len(elems) :
        /\ elems[i].isActive = TRUE
        /\ techniqueId \in {elems[i].technique1, elems[i].technique2,
                            elems[i].technique3}}

\* The positions of the techniques of a list with an active reference.
DetectedIn(list, elems) ==
    {i \in 1..Len(list) : ActiveReferences(elems, list[i].id) # {}}

\* The render of the dashboard has run on the current state.
DashboardRendered ==
    /\ currentView = "dashboard"
    /\ pc \in {"showLoading", "ready"}
    /\ IsArray(detections)

\* C1: in every reachable state, a loaded technique has status 'detected'
\* exactly when some active record of the store lists its id in a slot, and
\* 'not detected' otherwise; there is no third outcome.
C1_StatusIffActiveReference ==
    \A k \in 1..Len(techniques) :
        getTechniqueStatus(techniques[k]) =
            IF ActiveReferences(detections.elems, techniques[k].id) # {}
            THEN "detected" ELSE "not detected"

\* C2: a toggle of the one active record that references a technique leaves
\* the technique 'not detected', and a tactic whose only detected technique
\* it was has coverage 0.
C2_ToggleOnlyReference ==
    [][\A id \in CallIds : \A k \in 1..Len(techniques) :
          ( /\ IsArray(detections)
            /\ ActiveReferences(detections.elems, techniques[k].id)
                   = {findIndex(detections.elems, id)}
            /\ toggleDetectionActive(id) )
          => /\ getTechniqueStatus(techniques[k])' = "not detected"
             /\ \A j \in 1..Len(tactics) :
                   LET members == tacticTechniquesOf(tactics[j])
                   IN (\A m \in DetectedIn(members, detections.elems) :
                           members[m] = techniques[k])
                      => NumEq(tacticCoverage(tactics[j])'.coverage, Finite(0, 1))
      ]_vars

\* The scenario after the toggle: the record that was the only active
\* reference of T1 is inactive, T1 is not detected, 'execution' is at 0.
C2_Witness ==
    /\ techniques = <<TechT1, TechT2>>
    /\ detections = Arr(<<[StoredT1 EXCEPT !.isActive = FALSE], StoredT2Off>>)
    /\ getTechniqueStatus(TechT1) = "not detected"
    /\ NumEq(tacticCoverage(TacticExecution).coverage, Finite(0, 1))

\* C3: the overall coverage the dashboard computes is the number of detected
\* techniques over the number of loaded techniques, and 0 when none is loaded.
C3_OverallCoverage ==
    DashboardRendered =>
        NumEq(overallCoverage,
              IF techniques = <<>> THEN Finite(0, 1)
              ELSE Finite(Cardinality(DetectedIn(techniques, detections.elems)),
                          Len(techniques)))

\* C4: the coverage of a tactic is the detected share of the techniques
\* (sub-techniques included) whose tactics list contains its shortName, and 0
\* when there is none; one tactic with T1 and T2 and one active detection on
\* T1 has tactic and overall coverage 0.5.
TacticMembers(tactic) ==
    {i \in 1..Len(techniques) :
        \E p \in 1..Len(techniques[i].tactics) :
            techniques[i].tactics[p] = tactic.shortName}

DetectedMembers(tactic) ==
    {i \in TacticMembers(tactic) :
        ActiveReferences(detections.elems, techniques[i].id) # {}}

ScenarioState ==
    /\ Len(tactics) = 1
    /\ tactics[1].shortName = "execution"
    /\ Len(techniques) = 2
    /\ techniques[1].id = T1 /\ techniques[2].id = T2
    /\ TacticMembers(tactics[1]) = {1, 2}
    /\ IsArray(detections)
    /\ Cardinality(ActiveReferences(detections.elems, T1)) = 1
    /\ ActiveReferences(detections.elems, T2) = {}

C4_TacticCoverage ==
    IsArray(detections) =>
        /\ \A j \in 1..Len(tactics) :
              LET members == TacticMembers(tactics[j])
                  entry == tacticCoverage(tactics[j])
              IN /\ entry.count = Cardinality(members)
                 /\ NumEq(entry.coverage,
                          IF members = {} THEN Finite(0, 1)
                          ELSE Finite(100 * Cardinality(DetectedMembers(tactics[j])),
                                      Cardinality(members)))
        /\ ScenarioState =>
              /\ NumEq(tacticCoverage(tactics[1]).coverage, Finite(50, 1))
              /\ NumEq(overallCoverage, Finite(1, 2))

\* The scenario, rendered.
C4_Witness ==
    /\ pc = "ready"
    /\ ScenarioState
    /\ tacticCoverage(tactics[1]).count = 2

\* Further cases of C4: a tactic without a technique beside one with a
\* detected sub-technique.
C4_CaseEmptyTactic ==
    /\ pc = "ready"
    /\ \E j \in 1..Len(tactics) :
          /\ TacticMembers(tactics[j]) = {}
          /\ NumEq(tacticCoverage(tactics[j]).coverage, Finite(0, 1))
    /\ \E j \in 1..Len(tactics) : \E i \in DetectedMembers(tactics[j]) :
          techniques[i].isSubTechnique

\* C5: over a store that is a list of detection records, the detection-rule
\* count of an id is the number of active records that list the id in a slot:
\* an inactive record adds nothing, a record that lists the id twice adds 1,
\* and records that reference no loaded technique change no loaded technique's
\* count or status.
LoadedIds == {techniques[k].id : k \in 1..Len(techniques)}
QueriedIds == LoadedIds \cup {T1, T2, T9, T10, T1_01}

ReferencesLoaded(det) ==
    {det.technique1, det.technique2, det.technique3} \cap LoadedIds # {}

C5_DetectionRuleCount ==
    IsArray(detections) =>
        /\ \A id \in QueriedIds :
              getDetectionRulesForTechnique(id)
                  = Cardinality(ActiveReferences(detections.elems, id))
        /\ \A k \in 1..Len(techniques) :
              LET id == techniques[k].id
                  kept == SelectSeq(detections.elems, ReferencesLoaded)
              IN /\ getDetectionRulesForTechnique(id)
                        = Cardinality(ActiveReferences(kept, id))
                 /\ getTechniqueStatus(techniques[k]) = "detected"
                        <=> ActiveReferences(kept, id) # {}

\* An active record lists T1 twice beside an id outside the corpus and counts
\* once; an inactive record lists T2 and counts for nothing.
C5_Witness ==
    /\ IsArray(detections)
    /\ T1 \in LoadedIds /\ T2 \in LoadedIds /\ T9 \notin LoadedIds
    /\ \E i \in 1..Len(detections.elems) :
          LET det == detections.elems[i]
          IN /\ det.isActive
             /\ det.technique1 = T9 /\ det.technique2 = T1 /\ det.technique3 = T1
    /\ \E i \in 1..Len(detections.elems) :
          LET det == detections.elems[i]
          IN ~det.isActive /\ det.technique3 = T2
    /\ getDetectionRulesForTechnique(T1) = 1
    /\ getDetectionRulesForTechnique(T2) = 0
    /\ getDetectionRulesForTechnique(T9) = 1

\* C6: calculateCoverage is 1 for a detected technique and 0 otherwise,
\* whatever the number of active references, and every tactic coverage and
\* the overall coverage lie between 0 and 1 (0 and 100 percent).
InUnitInterval(x, scale) ==
    /\ x.kind = "finite"
    /\ 0 <= x.num
    /\ x.num <= scale * x.den

C6_BinaryCoverage ==
    IsArray(detections) =>
        /\ \A k \in 1..Len(techniques) :
              calculateCoverage(techniques[k]) =
                  IF ActiveReferences(detections.elems, techniques[k].id) # {}
                  THEN 1 ELSE 0
        /\ \A j \in 1..Len(tactics) :
              InUnitInterval(tacticCoverage(tactics[j]).coverage, 100)
        /\ DashboardRendered => InUnitInterval(overallCoverage, 1)

\* C7: the tactics of a technique are the phase names of its 'mitre-attack'
\* kill-chain phases; a technique counts in each tactic whose shortName is in
\* that list, and once in the overall mean; display names play no part.
RECURSIVE MitrePhaseNames(_)
MitrePhaseNames(phases) ==
    IF phases = <<>> THEN <<>>
    ELSE (IF Head(phases).kill_chain_name = "mitre-attack"
          THEN <<Head(phases).phase_name>> ELSE <<>>)
         \o MitrePhaseNames(Tail(phases))

PhasesOf(obj) ==
    IF "kill_chain_phases" \in obj.missing THEN <<>> ELSE obj.kill_chain_phases

\* The corpus objects a technique of the model was made from.
SourcesOf(technique) ==
    {i \in 1..Len(attackData.objects) :
        /\ attackData.objects[i].type = "attack-pattern"
        /\ attackData.objects[i].id = technique.stixId}

InList(x, list) == \E p \in 1..Len(list) : list[p] = x

C7_TacticMembership ==
    /\ \A k \in 1..Len(techniques) :
          /\ SourcesOf(techniques[k]) # {}
          /\ \A i \in SourcesOf(techniques[k]) :
                techniques[k].tactics
                    = MitrePhaseNames(PhasesOf(attackData.objects[i]))
    /\ IsArray(detections) =>
          /\ \A j \in 1..Len(tactics) :
                LET members ==
                        {k \in 1..Len(techniques) :
                            \E i \in SourcesOf(techniques[k]) :
                                InList(tactics[j].shortName,
                                       MitrePhaseNames(PhasesOf(attackData.objects[i])))}
                    detected ==
                        {k \in members :
                            ActiveReferences(detections.elems, techniques[k].id) # {}}
                    entry == tacticCoverage(tactics[j])
                IN /\ entry.count = Cardinality(members)
                   /\ members # {} =>
                         NumEq(entry.coverage,
                               Finite(100 * Cardinality(detected), Cardinality(members)))
          /\ techniques # <<>> =>
                /\ overallCoverage.den = Len(techniques)
                /\ overallCoverage.num
                       = Cardinality(DetectedIn(techniques, detections.elems))

\* A detected technique under two loaded tactics counts in both and once in
\* the overall mean.
C7_Witness ==
    /\ pc = "ready"
    /\ Len(tactics) = 2
    /\ Len(techniques) = 1
    /\ Len(techniques[1].tactics) = 2
    /\ \A j \in 1..2 :
          /\ tacticCoverage(tactics[j]).count = 1
          /\ NumEq(tacticCoverage(tactics[j]).coverage, Finite(100, 1))
    /\ NumEq(overallCoverage, Finite(1, 1))

\* A technique that names a tactic by its display name, under a chain that is
\* not 'mitre-attack' by its shortName, is no member of the tactic.
C7_CaseDisplayName ==
    /\ pc = "ready"
    /\ \E j \in 1..Len(tactics) : \E k \in 1..Len(techniques) :
          /\ InList(tactics[j].name, techniques[k].tactics)
          /\ ~InList(tactics[j].shortName, techniques[k].tactics)
          /\ tacticCoverage(tactics[j]).count = 0

\* C8: no corpus object flagged revoked or deprecated is in the techniques
\* list, so none is counted for a tactic or in the overall coverage.
LiveSources(shortName) ==
    {i \in 1..Len(attackData.objects) :
        LET obj == attackData.objects[i]
        IN /\ obj.type = "attack-pattern"
           /\ obj.revoked = FALSE /\ obj.deprecated = FALSE
           /\ InList(shortName, MitrePhaseNames(PhasesOf(obj)))}

C8_NoRevokedOrDeprecated ==
    /\ \A k \in 1..Len(techniques) : \A i \in 1..Len(attackData.objects) :
          attackData.objects[i].id = techniques[k].stixId
              => /\ attackData.objects[i].revoked = FALSE
                 /\ attackData.objects[i].deprecated = FALSE
    /\ IsArray(detections) =>
          \A j \in 1..Len(tactics) :
              tacticCoverage(tactics[j]).count
                  <= Cardinality(LiveSources(tactics[j].shortName))
    /\ Len(techniques) <=
           Cardinality({i \in 1..Len(attackData.objects) :
                           /\ attackData.objects[i].type = "attack-pattern"
                           /\ attackData.objects[i].revoked = FALSE
                           /\ attackData.objects[i].deprecated = FALSE})

\* A document with a revoked and a deprecated entry beside a technique.
C8_Witness ==
    /\ pc = "ready"
    /\ \E i \in 1..Len(attackData.objects) : attackData.objects[i].revoked
    /\ \E i \in 1..Len(attackData.objects) : attackData.objects[i].deprecated
    /\ Len(techniques) = 1

\* C9: an attack-pattern without a 'mitre-attack' reference, or whose
\* 'mitre-attack' reference has an empty identifier, is not in the techniques
\* list, and every technique has a non-empty id.
RefsOf(obj) ==
    IF "external_references" \in obj.missing THEN <<>> ELSE obj.external_references

NoMitreIdentifier(obj) ==
    LET refs == RefsOf(obj)
        mitre == {r \in 1..Len(refs) : refs[r].source_name = "mitre-attack"}
    IN \/ mitre = {}
       \/ LET first == CHOOSE r \in mitre : \A q \in mitre : r <= q
          IN \/ "external_id" \in refs[first].missing
             \/ refs[first].external_id = <<>>

C9_NoEmptyIdentifier ==
    /\ \A k \in 1..Len(techniques) : Len(techniques[k].id) > 0
    /\ \A i \in 1..Len(attackData.objects) :
          ( /\ attackData.objects[i].type = "attack-pattern"
            /\ NoMitreIdentifier(attackData.objects[i]) )
          => \A k \in 1..Len(techniques) :
                techniques[k].stixId # attackData.objects[i].id

\* A document with an entry without a 'mitre-attack' reference and one with
\* an empty identifier beside a technique.
C9_Witness ==
    /\ pc = "ready"
    /\ \E i \in 1..Len(attackData.objects) :
          LET obj == attackData.objects[i]
          IN /\ obj.type = "attack-pattern"
             /\ \A r \in 1..Len(RefsOf(obj)) :
                   RefsOf(obj)[r].source_name # "mitre-attack"
    /\ \E i \in 1..Len(attackData.objects) :
          LET obj == attackData.objects[i]
          IN /\ obj.type = "attack-pattern"
             /\ Len(RefsOf(obj)) > 0
             /\ RefsOf(obj)[1].source_name = "mitre-attack"
             /\ RefsOf(obj)[1].missing = {}
             /\ RefsOf(obj)[1].external_id = <<>>
    /\ Len(techniques) = 1

\* C10: the techniques list ascends by the pair (number between the leading
\* letter and the first '.', number after the '.', 0 without one).
FirstDot(id) ==
    IF \E i \in 1..Len(id) : id[i] = "."
    THEN CHOOSE i \in 1..Len(id) : id[i] = "." /\ \A j \in 1..(i - 1) : id[j] # "."
    ELSE Len(id) + 1

PrimaryKey(id) == DecimalValue(SubSeq(id, 2, FirstDot(id) - 1))
SecondaryKey(id) ==
    IF FirstDot(id) > Len(id) THEN 0
    ELSE DecimalValue(DigitPrefix(SubSeq(id, FirstDot(id) + 1, Len(id))))

KeyLeq(a, b) ==
    \/ PrimaryKey(a) < PrimaryKey(b)
    \/ PrimaryKey(a) = PrimaryKey(b) /\ SecondaryKey(a) <= SecondaryKey(b)

C10_SortedByKey ==
    \A i, j \in 1..Len(techniques) :
        i < j => KeyLeq(techniques[i].id, techniques[j].id)

\* Three techniques, a sub-technique among them, that the document lists in
\* another order than the list has.
C10_Witness ==
    /\ pc = "ready"
    /\ Len(techniques) >= 3
    /\ \E k \in 1..Len(techniques) : techniques[k].isSubTechnique
    /\ \E i, j \in 1..Len(attackData.objects) :
          /\ i < j
          /\ \E a, b \in 1..Len(techniques) :
                /\ b < a
                /\ techniques[a].stixId = attackData.objects[i].id
                /\ techniques[b].stixId = attackData.objects[j].id
                /\ ~KeyLeq(techniques[a].id, techniques[b].id)

\* C11: every sub-technique stands behind its parent, with nothing between
\* the two but the parent's other sub-techniques, whatever the order of the
\* objects in the document.
HasDot(id) == FirstDot(id) <= Len(id)
ParentPart(id) == SubSeq(id, 1, FirstDot(id) - 1)

C11_GroupedAfterParent ==
    \A p, s \in 1..Len(techniques) :
        ( /\ ~HasDot(techniques[p].id)
          /\ HasDot(techniques[s].id)
          /\ ParentPart(techniques[s].id) = techniques[p].id )
        => /\ p < s
           /\ \A k \in (p + 1)..(s - 1) :
                 ParentPart(techniques[k].id) = techniques[p].id

\* C12: a technique is a sub-technique exactly when its id contains a '.';
\* the parent id of a sub-technique is the part of its id before the first
\* '.', and a technique that is none has the parent id null.
C12_SubTechniqueAndParent ==
    \A k \in 1..Len(techniques) :
        LET tech == techniques[k]
        IN /\ tech.isSubTechnique <=> HasDot(tech.id)
           /\ tech.parentId = IF HasDot(tech.id) THEN ParentPart(tech.id) ELSE null
           /\ tech.parentId # null <=> tech.isSubTechnique

\* A sub-technique of T1 beside a technique without parent.
C12_Witness ==
    /\ pc = "ready"
    /\ \E k \in 1..Len(techniques) :
          /\ techniques[k].id = T1_01
          /\ techniques[k].isSubTechnique
          /\ techniques[k].parentId = T1
    /\ \E k \in 1..Len(techniques) :
          /\ techniques[k].id = T10
          /\ ~techniques[k].isSubTechnique
          /\ techniques[k].parentId = null

\* C13: for a document whose objects lack optional fields (references,
\* phases, flags, short name, name, or the external_id of a 'mitre-attack'
\* reference), processAttackData raises no error and leaves the tactics of
\* every tactic object and the techniques of every live attack-pattern with
\* an identifier.
TacticSources ==
    {i \in 1..Len(attackData.objects) :
        attackData.objects[i].type = "x-mitre-tactic"}

IdentifiedSources ==
    {i \in 1..Len(attackData.objects) :
        LET obj == attackData.objects[i]
        IN /\ obj.type = "attack-pattern"
           /\ obj.revoked = FALSE /\ obj.deprecated = FALSE
           /\ ~NoMitreIdentifier(obj)}

C13_NormalizationCompletes ==
    (pc # "loadAttackData" /\ attackData.hasObjects) =>
        /\ alert # "load-failed"
        /\ Len(tactics) = Cardinality(TacticSources)
        /\ \A i \in IdentifiedSources :
              \E k \in 1..Len(techniques) :
                  techniques[k].stixId = attackData.objects[i].id

\* Further cases of C13: the document has an attack-pattern without references
\* and phases, which is filtered without an error; the document has a tactic
\* without a name beside a named one, and the sort of the tactics has thrown.
C13_CaseFieldsDefault ==
    /\ pc = "ready"
    /\ alert = "none"
    /\ \E i \in 1..Len(attackData.objects) :
          attackData.objects[i].missing = {"external_references", "kill_chain_phases"}
    /\ Len(techniques) = 1

C13_CaseNamelessTactic ==
    /\ pc = "ready"
    /\ alert = "load-failed"
    /\ Cardinality(TacticSources) = 2
    /\ \A i \in 1..Len(attackData.objects) :
          attackData.objects[i].type = "x-mitre-tactic"
    /\ tactics = <<>>

\* C14: a document that is absent or has no object collection leaves tactics
\* and techniques empty and the label at its placeholder, without an error
\* from the normalization; a document with objects but without collection
\* object, publisher identity and spec version gets the placeholder label
\* without an error.
NoMetadata ==
    /\ attackData.hasObjects
    /\ attackData.spec_version = <<>>
    /\ \A i \in 1..Len(attackData.objects) :
          /\ attackData.objects[i].type # "x-mitre-collection"
          /\ attackData.objects[i].type # "identity"

C14_AbsentDocumentAndMetadata ==
    pc # "loadAttackData" =>
        /\ (attackData.isNull \/ ~attackData.hasObjects) =>
              /\ tactics = <<>>
              /\ techniques = <<>>
              /\ mitreVersion = <<"Loading...">>
        /\ (~attackData.isNull /\ ~attackData.hasObjects) => alert = "none"
        /\ NoMetadata =>
              /\ mitreVersion = <<"MITRE ATT&CK ", "v?">>
              /\ alert = "none"

\* A document of a tactic and a technique without any metadata, loaded.
C14_Witness ==
    /\ pc = "ready"
    /\ NoMetadata
    /\ Len(tactics) = 1 /\ Len(techniques) = 1
    /\ mitreVersion = <<"MITRE ATT&CK ", "v?">>
    /\ alert = "none"

\* Further cases of C14: a document without an object collection, loaded; a
\* label with every part.
C14_CaseNoObjects ==
    /\ pc = "ready"
    /\ ~attackData.isNull /\ ~attackData.hasObjects
    /\ mitreVersion = <<"Loading...">>
    /\ alert = "none"

C14_CaseFullLabel ==
    /\ pc = "ready"
    /\ mitreVersion = <<"MITRE ATT&CK ", "v", "17.1", " - ", "Updated: ",
                        "May 6, 2025", " | STIX ", "2.1">>

\* C15: a submission whose name is empty or white space only, for a new
\* record or for an edit, reports the validation failure and leaves the
\* collection and its persisted copy as they were.
IsBlank(text) == \A i \in 1..Len(text) : text[i] = " "

C15_EmptyNameRejected ==
    [][\A nameInput \in NameInputs, isActive \in BOOLEAN,
          techniqueInput \in TechniqueInputs, now \in 0..MaxClock,
          random \in 1..MaxRandom :
          ( /\ IsBlank(nameInput)
            /\ saveDetection(nameInput, isActive, techniqueInput, now, random) )
          => /\ alert' = "name-required"
             /\ detections' = detections
             /\ storage' = storage
      ]_vars

\* The failure has been reported for an edit of a stored record and for a
\* new record.
C15_Witness ==
    /\ alert = "name-required"
    /\ modalOpen
    /\ editingDetectionId # <<>>
    /\ IsArray(detections)
    /\ findIndex(detections.elems, editingDetectionId[1]) # 0
    /\ storage = stringify(detections)

C15_CaseCreate ==
    /\ alert = "name-required"
    /\ modalOpen
    /\ editingDetectionId = <<>>

\* C16: a create (a submission with a name while no record is edited) that
\* succeeds appends one record, whose id is generated from the clock and the
\* random number of that moment and whose createdAt is its updatedAt, behind
\* the records of before, which stay as they were and in their order.
C16_CreateAppends ==
    [][\A nameInput \in NameInputs, isActive \in BOOLEAN,
          techniqueInput \in TechniqueInputs, now \in 0..MaxClock,
          random \in 1..MaxRandom :
          ( /\ ~IsBlank(nameInput)
            /\ editingDetectionId = <<>>
            /\ IsArray(detections)
            /\ saveDetection(nameInput, isActive, techniqueInput, now, random) )
          => LET before == detections.elems
                 after == detections'.elems
             IN /\ IsArray(detections')
                /\ Len(after) = Len(before) + 1
                /\ SubSeq(after, 1, Len(before)) = before
                /\ after[Len(after)].id = <<"det_", now, "_", random>>
                /\ after[Len(after)].updatedAt = now
                /\ after[Len(after)].createdAt = after[Len(after)].updatedAt
      ]_vars

\* A record of this session stands behind a stored one.
C16_Witness ==
    /\ pc = "ready"
    /\ IsArray(detections)
    /\ Len(detections.elems) = 2
    /\ detections.elems[1] = StoredT10
    /\ detections.elems[2].id = <<"det_", clock, "_", 1>>
    /\ detections.elems[2].createdAt = clock
    /\ detections.elems[2].updatedAt = clock
    /\ ~modalOpen
    /\ storage = stringify(detections)

\* C17: a submission in edit mode keeps the identity of the record: the
\* collection has the length and the ids of before in the same order, the
\* record at the position of the edited id has that id and the time of the
\* edit as updatedAt, every other record is as it was, and no id is new.
IdsOf(elems) == [i \in 1..Len(elems) |-> elems[i].id]

C17_EditKeepsIdentity ==
    [][\A nameInput \in NameInputs, isActive \in BOOLEAN,
          techniqueInput \in TechniqueInputs, now \in 0..MaxClock,
          random \in 1..MaxRandom :
          ( /\ ~IsBlank(nameInput)
            /\ editingDetectionId # <<>>
            /\ IsArray(detections)
            /\ saveDetection(nameInput, isActive, techniqueInput, now, random) )
          => LET before == detections.elems
                 after == detections'.elems
                 edited == {i \in 1..Len(before) :
                               /\ before[i].id = editingDetectionId[1]
                               /\ \A j \in 1..(i - 1) :
                                     before[j].id # editingDetectionId[1]}
             IN /\ IsArray(detections')
                /\ IdsOf(after) = IdsOf(before)
                /\ \A i \in 1..Len(before) :
                      IF i \in edited
                      THEN /\ after[i].updatedAt = now
                           /\ after[i].isActive = isActive
                      ELSE after[i] = before[i]
      ]_vars

\* The first stored record has been edited: it has its id, and the fields of
\* the form; the second is as stored.
C17_Witness ==
    /\ pc = "ready"
    /\ IsArray(detections)
    /\ Len(detections.elems) = 2
    /\ detections.elems[1].id = StoredT2Off.id
    /\ detections.elems[1].technique1 = T9
    /\ detections.elems[1].technique2 = T1
    /\ detections.elems[1].isActive
    /\ detections.elems[2] = StoredT10
    /\ ~modalOpen
    /\ editingDetectionId = <<>>

\* C18: a submission in edit mode for an id that the collection does not
\* hold (the record was deleted, or an import replaced the collection, after
\* the edit began) leaves the collection as it was and reports that to the
\* user.
C18_UpdateOfUnknownId ==
    [][\A nameInput \in NameInputs, isActive \in BOOLEAN,
          techniqueInput \in TechniqueInputs, now \in 0..MaxClock,
          random \in 1..MaxRandom :
          ( /\ ~IsBlank(nameInput)
            /\ editingDetectionId # <<>>
            /\ IsArray(detections)
            /\ \A i \in 1..Len(detections.elems) :
                  detections.elems[i].id # editingDetectionId[1]
            /\ saveDetection(nameInput, isActive, techniqueInput, now, random) )
          => /\ detections' = detections
             /\ alert' # "none"
      ]_vars

\* The part of C18 on the collection alone.
C18_CaseCollectionUnchanged ==
    [][\A nameInput \in NameInputs, isActive \in BOOLEAN,
          techniqueInput \in TechniqueInputs, now \in 0..MaxClock,
          random \in 1..MaxRandom :
          ( /\ ~IsBlank(nameInput)
            /\ editingDetectionId # <<>>
            /\ IsArray(detections)
            /\ \A i \in 1..Len(detections.elems) :
                  detections.elems[i].id # editingDetectionId[1]
            /\ saveDetection(nameInput, isActive, techniqueInput, now, random) )
          => detections' = detections
      ]_vars

\* C19: a confirmed delete of an id removes the records with that id and
\* leaves the others as they were and in their order; for an id the
\* collection does not hold its content stays the same; and the result is
\* true exactly when a record was there and has been removed.
C19_DeleteById ==
    [][\A id \in CallIds :
          (IsArray(detections) /\ deleteDetection(id, TRUE))
          => LET OtherId(d) == d.id # id
                 existed == \E i \in 1..Len(detections.elems) :
                                detections.elems[i].id = id
             IN /\ detections' = Arr(SelectSeq(detections.elems, OtherId))
                /\ ~existed => detections' = detections
                /\ deleteDetectionReturns(id, TRUE) = "true" <=> existed
      ]_vars

\* The part of C19 on the collection alone.
C19_CaseCollection ==
    [][\A id \in CallIds :
          (IsArray(detections) /\ deleteDetection(id, TRUE))
          => LET OtherId(d) == d.id # id
                 existed == \E i \in 1..Len(detections.elems) :
                                detections.elems[i].id = id
             IN /\ detections' = Arr(SelectSeq(detections.elems, OtherId))
                /\ ~existed => detections' = detections
      ]_vars

\* The first of two stored records has been deleted.
C19_CaseDeleted ==
    /\ pc = "ready"
    /\ detections = Arr(<<StoredT10>>)
    /\ storage = stringify(detections)

\* C20: a change of the active flag by id changes the isActive field of the
\* record with that id and nothing else, in that record or in another; for
\* an id the collection does not hold nothing changes and the caller is told
\* that the record was not found.
C20_SetActiveById ==
    [][\A id \in CallIds :
          (IsArray(detections) /\ toggleDetectionActive(id))
          => LET before == detections.elems
                 index == findIndex(before, id)
             IN IF index # 0
                THEN detections' =
                         Arr([before EXCEPT
                                 ![index].isActive = ~before[index].isActive])
                ELSE /\ detections' = detections
                     /\ \/ alert' # "none"
                        \/ toggleDetectionActiveReturns(id) # "undefined"
      ]_vars

\* The part of C20 on the collection alone.
C20_CaseCollection ==
    [][\A id \in CallIds :
          (IsArray(detections) /\ toggleDetectionActive(id))
          => LET before == detections.elems
                 index == findIndex(before, id)
             IN IF index # 0
                THEN /\ IsArray(detections')
                     /\ Len(detections'.elems) = Len(before)
                     /\ \A i \in 1..Len(before) :
                           detections'.elems[i] =
                               IF i = index
                               THEN [before[i] EXCEPT !.isActive = ~before[i].isActive]
                               ELSE before[i]
                ELSE detections' = detections
      ]_vars

\* C21: in every reachable state the records of the collection have pairwise
\* different ids.
C21_UniqueIds ==
    IsArray(detections) =>
        \A i, j \in 1..Len(detections.elems) :
            i # j => detections.elems[i].id # detections.elems[j].id

\* Further cases of C21: two records of one id came from an imported file;
\* two records created in the same millisecond got the same id.
C21_CaseImported ==
    detections = Arr(<<StoredT1, StoredT1Twin>>)

C21_CaseGenerated ==
    /\ IsArray(detections)
    /\ Len(detections.elems) = 2
    /\ detections.elems[1].id = generateId(clock, 1)
    /\ detections.elems[2].id = generateId(clock, 1)

\* C22: the import of a file that is not JSON, that has no detections field,
\* or whose detections field is not an array, leaves the collection as it was
\* and reports an import error instead of a success.
Malformed(file) ==
    \/ ~file.parses
    \/ ~file.hasDetections
    \/ file.detections.kind # "array"

C22_ImportRejectsNonArray ==
    [][\A file \in ImportFiles :
          (Malformed(file) /\ importData(file))
          => /\ detections' = detections
             /\ alert' = "import-error"
      ]_vars

\* Further cases of C22: a value that is no array has become the collection
\* and the persisted copy, with an error reported and with a success reported.
C22_CaseReplacedWithError ==
    /\ ~IsArray(detections)
    /\ storage = stringify(detections)
    /\ alert = "import-error"

C22_CaseReplacedWithSuccess ==
    /\ ~IsArray(detections)
    /\ storage = stringify(detections)
    /\ alert = "import-ok"

\* C23: the import of a file with a detections array replaces the collection:
\* afterwards it is the imported array, record for record and in its order,
\* and holds no record of before that the file does not hold.
C23_ImportReplaces ==
    [][\A file \in ImportFiles :
          ( /\ file.parses /\ file.hasDetections
            /\ file.detections.kind = "array"
            /\ importData(file) )
          => /\ detections' = file.detections
             /\ alert' = "import-ok"
             /\ IsArray(detections) =>
                   \A i \in 1..Len(detections.elems) :
                       InList(detections.elems[i], detections'.elems)
                           => InList(detections.elems[i], file.detections.elems)
      ]_vars

\* The two records of the imported file are the collection, and none of the
\* stored ones is left.
C23_Witness ==
    /\ pc = "ready"
    /\ detections = Arr(<<StoredT1, StoredT2Off>>)
    /\ alert = "import-ok"
    /\ storage = stringify(detections)

\* C24: the import of the file that exportData has just written of the
\* current collection leaves the collection as it is: the same records with
\* the same fields in the same order, for the empty collection too.
DownloadIsCurrent ==
    /\ download # <<>>
    /\ download[1].detections.kind = detections.kind
    /\ Len(download[1].detections.items) = Len(detections.elems)
    /\ \A i \in 1..Len(detections.elems) :
          download[1].detections.items[i] = stringifyRecord(detections.elems[i])

C24_ExportImportRoundTrip ==
    [][(DownloadIsCurrent /\ importData(parseExport(download[1])))
          => detections' = detections
      ]_vars

\* The export of a collection of one record without createdAt, which no other
\* imported file holds, has been imported and is the collection.
C24_Witness ==
    /\ pc = "ready"
    /\ DownloadIsCurrent
    /\ detections = Arr(<<StoredEdited>>)
    /\ alert = "import-ok"

\* Further case of C24: the same for the export of the empty collection.
C24_CaseEmpty ==
    /\ pc = "ready"
    /\ DownloadIsCurrent
    /\ detections = Arr(<<>>)
    /\ alert = "import-ok"

\* C25: loadUserData does not throw and leaves this.detections an array,
\* the empty one when the item is absent or its text is no JSON.
C25_LoadLeavesArray ==
    [][loadUserData =>
          /\ IsArray(detections')
          /\ (~storage.present \/ ~storage.valid) => detections' = Arr(<<>>)
      ]_vars

\* Further case of C25: with no item or with a text that is no JSON the
\* collection after loadUserData is the empty list.
C25_CaseAbsentOrCorrupt ==
    [][(loadUserData /\ (~storage.present \/ ~storage.valid))
          => detections' = Arr(<<>>)
      ]_vars

\* Further case of C25: that case has happened with a text that is no JSON.
C25_CaseCorruptLoaded ==
    /\ pc = "setupEventListeners"
    /\ storage = CorruptItem
    /\ detections = Arr(<<>>)

\* Further case of C25: saveUserData writes the text of the whole collection,
\* so that a second save without a change in between writes the same item.
C25_CaseSaveOverwrites ==
    [][(storage' # storage)
          => /\ storage' = saveUserData(detections')
             /\ saveUserData(detections') = stringify(detections')
      ]_vars

\* C26: the kill-chain projection has one entry for every shortName of the
\* order that a loaded tactic has, in the order of the list and whatever the
\* order of the tactics on display, none for the other shortNames, and every
\* entry carries the coverage of the tactic of its shortName.
PresentShortNames(order) ==
    LET Loaded(shortName) ==
            \E i \in 1..Len(tactics) : tactics[i].shortName = shortName
    IN SelectSeq(order, Loaded)

C26_KillChainProjection ==
    (pc # "loadAttackData" /\ IsArray(detections)) =>
        LET present == PresentShortNames(killChainOrder)
            projection == killChainProjection(killChainOrder)
        IN /\ Len(projection) = Len(present)
           /\ \A k \in 1..Len(present) : \A i \in 1..Len(tactics) :
                 tactics[i].shortName = present[k]
                    => NumEq(projection[k].coverage,
                             tacticCoverage(tactics[i]).coverage)

\* Discovery is displayed before Execution and projected after it, Execution
\* with a coverage that is not 0, and Persistence is omitted.
C26_Witness ==
    /\ pc = "ready"
    /\ Len(tactics) = 2
    /\ tactics[1].shortName = "discovery" /\ tactics[2].shortName = "execution"
    /\ Len(killChainProjection(killChainOrder)) = 2
    /\ killChainProjection(killChainOrder)[1].name = "Execution"
    /\ NumEq(killChainProjection(killChainOrder)[1].coverage, Finite(100, 1))
    /\ killChainProjection(killChainOrder)[2].name = "Discovery"

\* C27: the coverage results are the same for every order of the detection
\* records and every order of the technique list: the detection count and
\* the status of every technique, the coverage and the technique count of
\* every tactic and the overall coverage are those computed of the lists as
\* they are; and rendering changes neither list.
Reordered(list, p) == [i \in 1..Len(list) |-> list[p[i]]]

\* The same number, NaN being the same as NaN.
SameNumber(x, y) ==
    /\ x.kind = y.kind
    /\ x.kind = "finite" => x.num * y.den = y.num * x.den

OrderIndependent ==
    IsArray(detections) =>
        \A p \in Permutations(1..Len(detections.elems)) :
        \A q \in Permutations(1..Len(techniques)) :
            LET records == Reordered(detections.elems, p)
                list == Reordered(techniques, q)
            IN /\ \A k \in 1..Len(techniques) :
                     /\ detectionRulesIn(records, techniques[k].id)
                           = getDetectionRulesForTechnique(techniques[k].id)
                     /\ techniqueStatusIn(records, techniques[k])
                           = getTechniqueStatus(techniques[k])
                     /\ coverageIn(records, techniques[k])
                           = calculateCoverage(techniques[k])
               /\ \A j \in 1..Len(tactics) :
                     /\ SameNumber(tacticCoverageIn(list, records, tactics[j]).coverage,
                                   tacticCoverage(tactics[j]).coverage)
                     /\ tacticCoverageIn(list, records, tactics[j]).count
                           = tacticCoverage(tactics[j]).count
               /\ SameNumber(overallCoverageIn(list, records), overallCoverage)

C27_OrderIndependence ==
    /\ []OrderIndependent
    /\ [][renderCurrentView => UNCHANGED <<techniques, detections>>]_vars

\* Three different records, two of them active, over two techniques of which
\* one is detected, have been rendered.
C27_Witness ==
    /\ pc = "ready"
    /\ IsArray(detections)
    /\ Len(detections.elems) = 3
    /\ Len(techniques) = 2
    /\ getTechniqueStatus(techniques[1]) = "detected"
    /\ getTechniqueStatus(techniques[2]) = "not detected"
    /\ \E j \in 1..Len(tactics) :
          NumEq(tacticCoverage(tactics[j]).coverage, Finite(50, 1))

\* C28: the corpus is acquired in one step of start-up, while the loading
\* indicator shows and before the stored detections are loaded, the listeners
\* registered and the first render made, and never again; when the fetch or
\* the parse of its response fails, tactics and techniques stay empty, the
\* stored detections are loaded all the same, and the loading indicator is
\* hidden in the end.
AcquisitionFailed == pc # "loadAttackData" /\ attackData.isNull

C28_AcquisitionFirst ==
    [][(attackData' # attackData \/ tactics' # tactics \/ techniques' # techniques
        \/ pc = "loadAttackData")
          => /\ pc = "loadAttackData" /\ pc' = "loadUserData"
             /\ loading /\ loading'
             /\ detections = Arr(<<>>) /\ detections' = detections
      ]_vars

C28_FailureKeepsEmptyModel ==
    [](AcquisitionFailed =>
          /\ tactics = <<>> /\ techniques = <<>>
          /\ alert = "load-failed"
          /\ (pc # "loadUserData" /\ storage.present /\ storage.valid)
                => detections = JSONparse(storage.text))

C28_StartUpCompletes ==
    /\ C28_AcquisitionFirst
    /\ C28_FailureKeepsEmptyModel
    /\ (AcquisitionFailed ~> ~loading)

\* Further case of C28: after a failed fetch, over a stored list of records,
\* start-up has come to its end with the loading indicator hidden.
C28_CaseFailedFetchReady ==
    /\ pc = "ready"
    /\ AcquisitionFailed
    /\ ~loading
    /\ detections = Arr(<<StoredT2Off, StoredT10>>)

\* Further case of C28: over stored lists of records the indicator is hidden
\* in the end.
C28_CaseArrayStoreCompletes ==
    (AcquisitionFailed /\ IsArray(detections) /\ pc # "loadUserData") ~> ~loading

\* C29: a submission in edit mode leaves the createdAt of every record as it
\* was, that of the edited record too, and the updatedAt of a record that has
\* a createdAt is not earlier than it.
C29_EditKeepsCreatedAt ==
    [][\A nameInput \in NameInputs, isActive \in BOOLEAN,
          techniqueInput \in TechniqueInputs, now \in 0..MaxClock,
          random \in 1..MaxRandom :
          ( /\ ~IsBlank(nameInput)
            /\ editingDetectionId # <<>>
            /\ IsArray(detections)
            /\ saveDetection(nameInput, isActive, techniqueInput, now, random) )
          => /\ Len(detections'.elems) = Len(detections.elems)
             /\ \A i \in 1..Len(detections.elems) :
                   /\ detections'.elems[i].createdAt = detections.elems[i].createdAt
                   /\ detections'.elems[i].createdAt # NoTime
                         => detections'.elems[i].updatedAt
                               >= detections'.elems[i].createdAt
      ]_vars

\* Further case of C29: a submission that creates a record gives it the time
\* of the submission as createdAt and as updatedAt, and leaves the others.
C29_CaseCreateStamps ==
    [][\A nameInput \in NameInputs, isActive \in BOOLEAN,
          techniqueInput \in TechniqueInputs, now \in 0..MaxClock,
          random \in 1..MaxRandom :
          ( /\ ~IsBlank(nameInput)
            /\ editingDetectionId = <<>>
            /\ IsArray(detections)
            /\ saveDetection(nameInput, isActive, techniqueInput, now, random) )
          => /\ Len(detections'.elems) = Len(detections.elems) + 1
             /\ detections'.elems[Len(detections'.elems)].createdAt = now
             /\ detections'.elems[Len(detections'.elems)].updatedAt = now
             /\ \A i \in 1..Len(detections.elems) :
                   detections'.elems[i] = detections.elems[i]
      ]_vars

\* Further case of C29: a record that was created and then edited is in the
\* collection without a createdAt.
C29_CaseEditedLosesCreatedAt ==
    /\ pc = "ready"
    /\ IsArray(detections)
    /\ \E i \in 1..Len(detections.elems) :
          /\ detections.elems[i].id = generateId(0, 1)
          /\ detections.elems[i].createdAt = NoTime
          /\ detections.elems[i].updatedAt = 1

\* C30: once start-up has loaded the stored detections, and after every
\* operation on the collection, the item of localStorage is the JSON text of
\* this.detections; so after the recovery from a stored text that is no JSON
\* and after the import of a document without detections.
Loaded == pc \notin {"loadAttackData", "loadUserData"}

C30_PersistedIsSerialization ==
    Loaded => storage = stringify(detections)

\* What loadUserData makes of an item over the collection of the constructor.
Reloaded(item) ==
    IF ~item.present \/ ~item.valid THEN Arr(<<>>) ELSE JSONparse(item.text)

\* Further case of C30: a reload restores the collection in memory.
C30_CaseReloadRestores ==
    Loaded => Reloaded(storage) = detections

\* Further case of C30: every operation that changes the collection writes
\* its JSON text to the item.
C30_CaseWrittenOnChange ==
    [][(Loaded /\ detections' # detections) => storage' = stringify(detections')]_vars

\* Further case of C30: the import of a document without detections has
\* written the text of the collection over a stored text that was no JSON.
C30_CaseImportRepairs ==
    /\ pc = "ready"
    /\ alert = "import-ok"
    /\ detections = Arr(<<>>)
    /\ storage = stringify(Arr(<<>>))

=============================================================================
